---- MODULE Spec2Model ----
(***************************************************************************)
(* Co-purchase recommendation engine of lab5.4/task3.py:                   *)
(*   build_copurchase_graph, score_candidates, fairness_rerank,            *)
(*   explain_recommendation and recommend_for_user.                        *)
(*                                                                         *)
(* Python dicts keep insertion order, and the engine depends on it (the    *)
(* stable sort of fairness_rerank breaks ties by it), so a dict is a       *)
(* sequence of [key, val] records without repeated keys.                   *)
(*                                                                         *)
(* Scores are floats in the source.  Here a decay is the integer number of *)
(* 1/DecayDen units (0.85 = 17/20) and a score is the exact integer        *)
(* score * DecayDen^MaxLen, so    sums and comparisons are those of the     *)
(* exact rationals.                                                        *)
(***************************************************************************)
EXTENDS Integers, Sequences, FiniteSets, TLC

VARIABLES
    entry,                   \* the function the caller invoked
    pc,                      \* position of the running call
    outcome,                 \* "none" | "returned" | "raised"
    purchase_history,        \* dict user id -> list of product ids
    user_id,
    products,                \* catalog: dict product id -> Product
    top_k,
    max_per_brand,
    min_category_diversity,
    decay,
    target_user_products,    \* the owned sequence handed to the scorer
    edge_to_count,           \* dict (a, b) -> count
    candidates,              \* ScoreMap: dict product id -> score
    sorted_items,
    chosen,
    brand_counter,
    categories_present,
    first_pass_len,          \* len(chosen) when line 90 is reached
    results,
    product_id,              \* the product handed to explain_recommendation
    explanation,             \* what explain_recommendation returned
    threads,                 \* concurrent requests: pc, arguments, return value
    frames                   \* concurrent requests: the locals of each call

vars == <<entry, pc, outcome, purchase_history, user_id, products, top_k,
          max_per_brand, min_category_diversity, decay, target_user_products,
          edge_to_count, candidates, sorted_items, chosen, brand_counter,
          categories_present, first_pass_len, results, product_id,
          explanation, threads, frames>>

----------------------------------------------------------------------------
(* Bounds of the checked inputs *)

ProductIds == {"p1", "p2", "p3"}

\* the users of a purchase history, in the order of its keys
UserOrder == <<"u1", "u2">>

\* longest purchase list of a user given to build_copurchase_graph
MaxLen == 3

SeqsUpTo(S, n) == UNION {[1..k -> S] : k \in 0..n}

Range(s) == {s[i] : i \in 1..Len(s)}

Min(a, b) == IF a <= b THEN a ELSE b

----------------------------------------------------------------------------
(* dict and defaultdict *)

DictHas(d, k) == \E i \in 1..Len(d) : d[i].key = k

\* d.get(k, default)
DictGet(d, k, default) ==
    IF DictHas(d, k)
    THEN d[CHOOSE i \in 1..Len(d) : d[i].key = k].val
    ELSE default

DictKeys(d) == {d[i].key : i \in 1..Len(d)}

DictAdd_overwrite(d, k, delta) ==
    IF DictHas(d, k)
    THEN [i \in 1..Len(d) |->
            IF d[i].key = k THEN [key |-> k, val |-> delta] ELSE d[i]]
    ELSE Append(d, [key |-> k, val |-> delta])

\* d[k] += delta on a defaultdict(int) or defaultdict(float): a missing key
\* is inserted last with 0 + delta, a present key keeps its place.
DictAdd(d, k, delta) ==
    IF DictHas(d, k)
    THEN [i \in 1..Len(d) |->
            IF d[i].key = k THEN [key |-> k, val |-> d[i].val + delta] ELSE d[i]]
    ELSE Append(d, [key |-> k, val |-> delta])

----------------------------------------------------------------------------
(* build_copurchase_graph *)

Dedup_keepAll(s) == s

\* list(dict.fromkeys(products)): first occurrences, order kept
RECURSIVE Dedup(_)
Dedup(s) ==
    IF s = <<>> THEN <<>>
    ELSE LET r    == Dedup(SubSeq(s, 1, Len(s) - 1))
             last == s[Len(s)]
         IN  IF last \in Range(r) THEN r ELSE Append(r, last)

AddEdge_oneWay(g, a, b) == DictAdd(g, <<a, b>>, 1)

\* edge_to_count[(a, b)] += 1; edge_to_count[(b, a)] += 1
AddEdge(g, a, b) == DictAdd(DictAdd(g, <<a, b>>, 1), <<b, a>>, 1)

\* the loops over i and j > i, resumed at (i, j)
RECURSIVE AddPairs(_, _, _, _)
AddPairs(g, u, i, j) ==
    IF i > Len(u) THEN g
    ELSE IF j > Len(u) THEN AddPairs(g, u, i + 1, i + 2)
    ELSE AddPairs(AddEdge(g, u[i], u[j]), u, i, j + 1)

\* the loop over purchase_history.items(), after its first n entries
RECURSIVE BuildFrom(_, _)
BuildFrom(h, n) ==
    IF n = 0 THEN <<>>
    ELSE AddPairs(BuildFrom(h, n - 1), Dedup(h[n].val), 1, 2)

build_copurchase_graph_skipLast(h) == BuildFrom(h, Len(h) - 1)

build_copurchase_graph(h) == BuildFrom(h, Len(h))

----------------------------------------------------------------------------
(* score_candidates *)

\* 0.85 in units of 1/DecayDen
DecayDen == 20

DefaultDecay == 17

\* longest owned sequence handed to the scorer
MaxOwned == 2

RECURSIVE Pow(_, _)
Pow(b, e) == IF e = 0 THEN 1 ELSE b * Pow(b, e - 1)

Weight_fromOne(d, idx) == Pow(d, idx + 1) * Pow(DecayDen, MaxLen - idx - 1)

\* weight = decay ** idx, as an integer multiple of DecayDen^(-MaxLen)
Weight(d, idx) == Pow(d, idx) * Pow(DecayDen, MaxLen - idx)

IsCandidate_noOwnedFilter(e, owned, t) == e.key[1] = owned

IsCandidate_anySource(e, owned, t) == e.key[2] \notin Range(t)

\* a == owned and b not in target_user_products
IsCandidate(e, owned, t) == e.key[1] = owned /\ e.key[2] \notin Range(t)

RECURSIVE ScoreEdges_zeroEntries(_, _, _, _, _, _)
ScoreEdges_zeroEntries(s, owned, w, g, t, n) ==
    IF n = 0 THEN s
    ELSE LET r == ScoreEdges_zeroEntries(s, owned, w, g, t, n - 1)
             e == g[n]
         IN  IF e.key[2] \in Range(t) THEN r
             ELSE DictAdd(r, e.key[2], IF e.key[1] = owned THEN e.val * w ELSE 0)

\* the loop over edge_to_count.items(), after its first n entries
RECURSIVE ScoreEdges(_, _, _, _, _, _)
ScoreEdges(s, owned, w, g, t, n) ==
    IF n = 0 THEN s
    ELSE LET r == ScoreEdges(s, owned, w, g, t, n - 1)
             e == g[n]
         IN  IF IsCandidate(e, owned, t)
             THEN DictAdd(r, e.key[2], e.val * w)
             ELSE r

\* the loop over enumerate(target_user_products), after its first n items
RECURSIVE ScoreOwned(_, _, _, _)
ScoreOwned(t, g, d, n) ==
    IF n = 0 THEN <<>>
    ELSE ScoreEdges(ScoreOwned(t, g, d, n - 1), t[n], Weight(d, n - 1), g, t, Len(g))

score_candidates(t, g, d) == ScoreOwned(t, g, d, Len(t))

----------------------------------------------------------------------------
(* fairness_rerank *)

DefaultMaxPerBrand == 2

DefaultMinCategoryDiversity == 2

InsertDesc_append(s, x) == Append(s, x)

\* sorted(..., key=lambda kv: kv[1], reverse=True) is stable: x, which came
\* after every element of s, goes behind the elements that score at least
\* as much.
InsertDesc(s, x) ==
    LET n == Cardinality({i \in 1..Len(s) : s[i].val >= x.val})
    IN  SubSeq(s, 1, n) \o <<x>> \o SubSeq(s, n + 1, Len(s))

SortDesc_asGiven(d) == d

RECURSIVE SortDesc(_)
SortDesc(d) ==
    IF d = <<>> THEN <<>>
    ELSE InsertDesc(SortDesc(SubSeq(d, 1, Len(d) - 1)), d[Len(d)])

BrandCapReached_offByOne(n, mpb) == n > mpb

\* brand_counter[prod.brand] >= max_per_brand
BrandCapReached(n, mpb) == n >= mpb

\* len(chosen) == top_k and len(categories_present) >= min_category_diversity
FirstPassBreak(n, ncat, k, mcd) == n = k /\ ncat >= mcd

\* one iteration of the loop of lines 75-88; st.stopped records the break
FirstPassStep(st, item, cat, k, mpb, mcd) ==
    IF st.stopped THEN st
    ELSE IF item.key \notin DOMAIN cat THEN st
    ELSE LET prod == cat[item.key] IN
         IF BrandCapReached(DictGet(st.brand_counter, prod.brand, 0), mpb) THEN st
         ELSE LET ch == Append(st.chosen, item)
                  cp == st.categories_present \cup {prod.category}
              IN  [chosen             |-> ch,
                   brand_counter      |-> DictAdd(st.brand_counter, prod.brand, 1),
                   categories_present |-> cp,
                   stopped            |-> FirstPassBreak(Len(ch), Cardinality(cp), k, mcd)]

RECURSIVE FirstPass(_, _, _, _, _, _)
FirstPass(items, n, cat, k, mpb, mcd) ==
    IF n = 0
    THEN [chosen |-> <<>>, brand_counter |-> <<>>,
          categories_present |-> {}, stopped |-> FALSE]
    ELSE FirstPassStep(FirstPass(items, n - 1, cat, k, mpb, mcd),
                       items[n], cat, k, mpb, mcd)

BackfillStep_skip(st, item, cat, k) == st

BackfillStep_noCatalogCheck(st, item, cat, k) ==
    IF st.stopped THEN st
    ELSE IF item \in Range(st.chosen) THEN st
    ELSE LET ch == Append(st.chosen, item)
         IN  [chosen |-> ch, stopped |-> Len(ch) = k]

BackfillStep_prepend(st, item, cat, k) ==
    IF st.stopped THEN st
    ELSE IF item \in Range(st.chosen) THEN st
    ELSE IF item.key \notin DOMAIN cat THEN st
    ELSE LET ch == <<item>> \o st.chosen
         IN  [chosen |-> ch, stopped |-> Len(ch) = k]

BackfillStep_noChosenCheck(st, item, cat, k) ==
    IF st.stopped THEN st
    ELSE IF item.key \notin DOMAIN cat THEN st
    ELSE LET ch == Append(st.chosen, item)
         IN  [chosen |-> ch, stopped |-> Len(ch) = k]

\* one iteration of the loop of lines 91-99
BackfillStep(st, item, cat, k) ==
    IF st.stopped THEN st
    ELSE IF item \in Range(st.chosen) THEN st
    ELSE IF item.key \notin DOMAIN cat THEN st
    ELSE LET ch == Append(st.chosen, item)
         IN  [chosen |-> ch, stopped |-> Len(ch) = k]

RECURSIVE BackfillLoop(_, _, _, _, _)
BackfillLoop(ch, items, n, cat, k) ==
    IF n = 0 THEN [chosen |-> ch, stopped |-> FALSE]
    ELSE BackfillStep(BackfillLoop(ch, items, n - 1, cat, k), items[n], cat, k)

\* lines 90-101
Backfill(ch, items, cat, k) ==
    IF Len(ch) < k THEN BackfillLoop(ch, items, Len(items), cat, k).chosen ELSE ch

\* the list a call returns
fairness_rerank(c, cat, k, mpb, mcd) ==
    LET items == SortDesc(c)
    IN  Backfill(FirstPass(items, Len(items), cat, k, mpb, mcd).chosen, items, cat, k)

----------------------------------------------------------------------------
(* explain_recommendation *)

MaxExplained == 3

Contributes_nonNegative(count) == count >= 0

\* if count > 0
Contributes(count) == count > 0

\* the loop of lines 116-119, after the first n owned products
RECURSIVE Contributions(_, _, _, _)
Contributions(pid, t, g, n) ==
    IF n = 0 THEN <<>>
    ELSE LET r     == Contributions(pid, t, g, n - 1)
             count == DictGet(g, <<t[n], pid>>, 0)
         IN  IF Contributes(count) THEN Append(r, [key |-> t[n], val |-> count]) ELSE r

TitleOrId_unknown(p, cat) == IF p \in DOMAIN cat THEN cat[p].title ELSE "unknown"

\* products.get(p).title if p in products else p
TitleOrId(p, cat) == IF p \in DOMAIN cat THEN cat[p].title ELSE p

\* The returned string, as its parts: the title of the recommended product
\* and the "<owned title> (<count>)" entries; no entry is the fallback text
\* "based on similar users' purchases".
explain_recommendation(pid, t, g, cat) ==
    LET c   == SortDesc(Contributions(pid, t, g, Len(t)))
        top == SubSeq(c, 1, Min(MaxExplained, Len(c)))
    IN  [prod_title |-> TitleOrId(pid, cat),
         top_parts  |-> [i \in 1..Len(top) |->
                            [title |-> TitleOrId(top[i].key, cat), cnt |-> top[i].val]],
         fallback   |-> (top = <<>>)]

----------------------------------------------------------------------------
(* The calls.  entry is the function the caller invoked; a function that   *)
(* is not the entry returns into recommend_for_user.                       *)

OwnedProducts_anyUser(h, u) ==
    IF DictHas(h, u) \/ h = <<>> THEN DictGet(h, u, <<>>) ELSE h[1].val

\* purchase_history.get(user_id, [])
OwnedProducts(h, u) == DictGet(h, u, <<>>)

HistoryAfterGet_setdefault(h, u) ==
    IF DictHas(h, u) THEN h ELSE Append(h, [key |-> u, val |-> <<>>])

\* purchase_history after purchase_history.get(user_id, []): dict.get
\* inserts nothing
HistoryAfterGet(h, u) == h

\* recommend_for_user, line 162
RecommendStart ==
    /\ pc = "recommend"
    /\ target_user_products' = OwnedProducts(purchase_history, user_id)
    /\ purchase_history' = HistoryAfterGet(purchase_history, user_id)
    /\ pc' = "build_graph"
    /\ UNCHANGED <<entry, outcome, user_id, products, top_k,
                   max_per_brand, min_category_diversity, decay, edge_to_count,
                   candidates, sorted_items, chosen, brand_counter,
                   categories_present, first_pass_len, results,
                   product_id, explanation, threads, frames>>

\* build_copurchase_graph, lines 23-31
BuildGraph ==
    /\ pc = "build_graph"
    /\ edge_to_count' = build_copurchase_graph(purchase_history)
    /\ pc' = IF entry = "build_copurchase_graph" THEN "done" ELSE "score"
    /\ outcome' = IF entry = "build_copurchase_graph" THEN "returned" ELSE outcome
    /\ UNCHANGED <<entry, purchase_history, user_id, products, top_k,
                   max_per_brand, min_category_diversity, decay,
                   target_user_products, candidates, sorted_items, chosen,
                   brand_counter, categories_present, first_pass_len, results,
                   product_id, explanation, threads, frames>>

\* score_candidates, lines 45-51
ScoreCandidates ==
    /\ pc = "score"
    /\ candidates' = score_candidates(target_user_products, edge_to_count, decay)
    /\ pc' = IF entry = "score_candidates" THEN "done" ELSE "rerank"
    /\ outcome' = IF entry = "score_candidates" THEN "returned" ELSE outcome
    /\ UNCHANGED <<entry, purchase_history, user_id, products, top_k,
                   max_per_brand, min_category_diversity, decay,
                   target_user_products, edge_to_count, sorted_items, chosen,
                   brand_counter, categories_present, first_pass_len, results,
                   product_id, explanation, threads, frames>>

\* fairness_rerank, lines 70-88: the sort and the first pass
RerankFirstPass ==
    /\ pc = "rerank"
    /\ LET items == SortDesc(candidates)
           st    == FirstPass(items, Len(items), products, top_k,
                              max_per_brand, min_category_diversity)
       IN  /\ sorted_items' = items
           /\ chosen' = st.chosen
           /\ brand_counter' = st.brand_counter
           /\ categories_present' = st.categories_present
           /\ first_pass_len' = Len(st.chosen)
    /\ pc' = "line90"
    /\ UNCHANGED <<entry, outcome, purchase_history, user_id, products, top_k,
                   max_per_brand, min_category_diversity, decay,
                   target_user_products, edge_to_count, candidates, results,
                   product_id, explanation, threads, frames>>

\* fairness_rerank, lines 90-101: the backfill pass and the return
RerankBackfill ==
    /\ pc = "line90"
    /\ chosen' = Backfill(chosen, sorted_items, products, top_k)
    /\ pc' = IF entry = "fairness_rerank" THEN "done" ELSE "explain"
    /\ outcome' = IF entry = "fairness_rerank" THEN "returned" ELSE outcome
    /\ UNCHANGED <<entry, purchase_history, user_id, products, top_k,
                   max_per_brand, min_category_diversity, decay,
                   target_user_products, edge_to_count, candidates, sorted_items,
                   brand_counter, categories_present, first_pass_len, results,
                   product_id, explanation, threads, frames>>

\* recommend_for_user, lines 167-172
RecommendReturn ==
    /\ pc = "explain"
    /\ results' = [i \in 1..Len(chosen) |->
                     [pid         |-> chosen[i].key,
                      score       |-> chosen[i].val,
                      explanation |-> explain_recommendation(
                                          chosen[i].key, target_user_products,
                                          edge_to_count, products)]]
    /\ pc' = "done"
    /\ outcome' = "returned"
    /\ UNCHANGED <<entry, purchase_history, user_id, products, top_k,
                   max_per_brand, min_category_diversity, decay,
                   target_user_products, edge_to_count, candidates, sorted_items,
                   chosen, brand_counter, categories_present, first_pass_len,
                   product_id, explanation, threads, frames>>

\* explain_recommendation, lines 115-130, called on its own
ExplainRecommendation ==
    /\ pc = "explain_call"
    /\ explanation' = explain_recommendation(product_id, target_user_products,
                                             edge_to_count, products)
    /\ pc' = "done"
    /\ outcome' = "returned"
    /\ UNCHANGED <<entry, purchase_history, user_id, products, top_k,
                   max_per_brand, min_category_diversity, decay,
                   target_user_products, edge_to_count, candidates, sorted_items,
                   chosen, brand_counter, categories_present, first_pass_len,
                   results, product_id, threads, frames>>

\* the list recommend_for_user returns, lines 162-172
recommend_for_user(u, h, cat, k) ==
    LET t  == OwnedProducts(h, u)
        g  == build_copurchase_graph(h)
        rr == fairness_rerank(score_candidates(t, g, DefaultDecay), cat, k,
                              DefaultMaxPerBrand, DefaultMinCategoryDiversity)
    IN  [i \in 1..Len(rr) |->
            [pid         |-> rr[i].key,
             score       |-> rr[i].val,
             explanation |-> explain_recommendation(rr[i].key, t, g, cat)]]

----------------------------------------------------------------------------
(* Concurrent requests: calls of recommend_for_user that run in threads    *)
(* over one purchase history and one catalog, a statement at a time.       *)

Requests == {1, 2}

Slot_shared(r) == 1

\* where request r keeps its locals: in the frame of its own call
Slot(r) == r

SharedUnchanged ==
    UNCHANGED <<entry, pc, outcome, purchase_history, user_id, products, top_k,
                max_per_brand, min_category_diversity, decay,
                target_user_products, edge_to_count, candidates, sorted_items,
                chosen, brand_counter, categories_present, first_pass_len,
                results, product_id, explanation>>

\* line 162
ConcGet(r) ==
    /\ threads[r].pc = "recommend"
    /\ frames' = [frames EXCEPT ![Slot(r)].user_products =
                     OwnedProducts(purchase_history, threads[r].user_id)]
    /\ threads' = [threads EXCEPT ![r].pc = "build_graph"]
    /\ SharedUnchanged

\* line 163
ConcBuild(r) ==
    /\ threads[r].pc = "build_graph"
    /\ frames' = [frames EXCEPT ![Slot(r)].edge_to_count =
                     build_copurchase_graph(purchase_history)]
    /\ threads' = [threads EXCEPT ![r].pc = "score"]
    /\ SharedUnchanged

\* line 164
ConcScore(r) ==
    /\ threads[r].pc = "score"
    /\ frames' = [frames EXCEPT ![Slot(r)].raw_scores =
                     score_candidates(frames[Slot(r)].user_products,
                                      frames[Slot(r)].edge_to_count, DefaultDecay)]
    /\ threads' = [threads EXCEPT ![r].pc = "rerank"]
    /\ SharedUnchanged

\* line 165
ConcRerank(r) ==
    /\ threads[r].pc = "rerank"
    /\ frames' = [frames EXCEPT ![Slot(r)].reranked =
                     fairness_rerank(frames[Slot(r)].raw_scores, products,
                                     threads[r].top_k, DefaultMaxPerBrand,
                                     DefaultMinCategoryDiversity)]
    /\ threads' = [threads EXCEPT ![r].pc = "explain"]
    /\ SharedUnchanged

\* lines 167-172
ConcReturn(r) ==
    /\ threads[r].pc = "explain"
    /\ LET f == frames[Slot(r)]
       IN  threads' = [threads EXCEPT
              ![r].pc  = "done",
              ![r].ret = [i \in 1..Len(f.reranked) |->
                            [pid         |-> f.reranked[i].key,
                             score       |-> f.reranked[i].val,
                             explanation |-> explain_recommendation(
                                                 f.reranked[i].key, f.user_products,
                                                 f.edge_to_count, products)]]]
    /\ UNCHANGED frames
    /\ SharedUnchanged

----------------------------------------------------------------------------
(* Inputs *)

ProductOrder == <<"p1", "p2", "p3">>

Brands == {"AquaCo", "HikeMax"}

Categories == {"Outdoors", "Kitchen"}

Titles == [p \in ProductIds |->
             CASE p = "p1" -> "Eco Water Bottle"
               [] p = "p2" -> "Insulated Mug"
               [] p = "p3" -> "Trail Backpack"]

Product(p, b, c) == [product_id |-> p, title |-> Titles[p], brand |-> b, category |-> c]

\* the catalog entries of demo() for the modelled products
DemoProduct(p) ==
    CASE p = "p1" -> Product("p1", "AquaCo", "Outdoors")
      [] p = "p2" -> Product("p2", "AquaCo", "Kitchen")
      [] p = "p3" -> Product("p3", "HikeMax", "Outdoors")

\* every catalog over the products S or some of them
CatalogsOver(S) ==
    UNION {{[p \in D |-> Product(p, bc[p][1], bc[p][2])] :
               bc \in [D -> Brands \X Categories]} : D \in SUBSET S}

DemoCatalogs == {[p \in D |-> DemoProduct(p)] : D \in SUBSET ProductIds}

\* purchase histories of the users UserOrder[1..n], lists no longer than m
HistoriesUpTo(m) ==
    UNION {{[i \in 1..n |-> [key |-> UserOrder[i], val |-> f[i]]] :
               f \in [1..n -> SeqsUpTo(ProductIds, m)]} : n \in 0..Len(UserOrder)}

\* most entries of a graph handed to score_candidates directly
MaxEdges == 2

CountValues == {1, 2}

PairRank(k) ==
    LET idx(p) == CHOOSE i \in 1..Len(ProductOrder) : ProductOrder[i] = p
    IN  idx(k[1]) * Len(ProductOrder) + idx(k[2])

\* Any dict (a, b) -> count of at most MaxEdges entries, self-pairs and
\* one-way edges included, its keys inserted in the order of PairRank.
Graphs ==
    UNION {{g \in [1..n -> [key : ProductIds \X ProductIds, val : CountValues]] :
               \A i, j \in 1..n : i < j => PairRank(g[i].key) < PairRank(g[j].key)} :
           n \in 0..MaxEdges}

\* -0.5, 0, 0.5, 0.85, 1 and 1.5
DecayValues == {0 - 10, 0, 10, DefaultDecay, DecayDen, 30}

MaxScore == 2

MaxTopK == 3

TopKs == (0 - 1)..MaxTopK

BrandCaps == {-1, 0, 1, 2}

MinDiversities == {1, 2, 3}

\* ScoreMaps over the first n products, inserted in the order of ProductOrder
ScoreMaps ==
    UNION {{[i \in 1..n |-> [key |-> ProductOrder[i], val |-> s[i]]] :
               s \in [1..n -> 1..MaxScore]} : n \in 0..Len(ProductOrder)}

----------------------------------------------------------------------------
(* Specifications: one per entry point *)

\* a call of build_copurchase_graph
InitGraph ==
    /\ entry = "build_copurchase_graph"
    /\ pc = "build_graph"
    /\ outcome = "none"
    /\ purchase_history \in HistoriesUpTo(MaxLen)
    /\ user_id = "u1"
    /\ products = <<>>
    /\ top_k = 0
    /\ max_per_brand = DefaultMaxPerBrand
    /\ min_category_diversity = DefaultMinCategoryDiversity
    /\ decay = DefaultDecay
    /\ target_user_products = <<>>
    /\ edge_to_count = <<>>
    /\ candidates = <<>>
    /\ sorted_items = <<>>
    /\ chosen = <<>>
    /\ brand_counter = <<>>
    /\ categories_present = {}
    /\ first_pass_len = 0
    /\ results = <<>>
    /\ product_id = "p1"
    /\ explanation = <<>>
    /\ threads = <<>>
    /\ frames = <<>>

NextGraph == BuildGraph

SpecGraph == InitGraph /\ [][NextGraph]_vars

\* a call of build_copurchase_graph on a history whose users have each made
\* at most as many purchases as there are products
InitGraphShort ==
    /\ entry = "build_copurchase_graph"
    /\ pc = "build_graph"
    /\ outcome = "none"
    /\ purchase_history \in HistoriesUpTo(Len(ProductOrder))
    /\ user_id = "u1"
    /\ products = <<>>
    /\ top_k = 0
    /\ max_per_brand = DefaultMaxPerBrand
    /\ min_category_diversity = DefaultMinCategoryDiversity
    /\ decay = DefaultDecay
    /\ target_user_products = <<>>
    /\ edge_to_count = <<>>
    /\ candidates = <<>>
    /\ sorted_items = <<>>
    /\ chosen = <<>>
    /\ brand_counter = <<>>
    /\ categories_present = {}
    /\ first_pass_len = 0
    /\ results = <<>>
    /\ product_id = "p1"
    /\ explanation = <<>>
    /\ threads = <<>>
    /\ frames = <<>>

SpecGraphShort == InitGraphShort /\ [][NextGraph]_vars

\* the first three users of the history of demo()
ExampleHistory ==
    <<[key |-> "u1", val |-> <<"p1", "p3", "p4">>],
      [key |-> "u2", val |-> <<"p1", "p2", "p6">>],
      [key |-> "u3", val |-> <<"p3", "p6">>]>>

\* the elements of l at the positions S that are at most n, in their order
RECURSIVE Pick(_, _, _)
Pick(l, S, n) ==
    IF n = 0 THEN <<>>
    ELSE IF n \in S THEN Append(Pick(l, S, n - 1), l[n]) ELSE Pick(l, S, n - 1)

SubLists(l) == {Pick(l, S, Len(l)) : S \in SUBSET (1..Len(l))}

\* the example history and the histories in which its users bought only
\* some of their products
ExampleHistories ==
    {[i \in 1..Len(ExampleHistory) |-> [key |-> ExampleHistory[i].key, val |-> f[i]]] :
        f \in {x \in [1..Len(ExampleHistory) -> UNION {SubLists(ExampleHistory[i].val) :
                                                         i \in 1..Len(ExampleHistory)}] :
                 \A i \in 1..Len(ExampleHistory) : x[i] \in SubLists(ExampleHistory[i].val)}}

\* a call of build_copurchase_graph on the example history or a part of it
InitExample ==
    /\ entry = "build_copurchase_graph"
    /\ pc = "build_graph"
    /\ outcome = "none"
    /\ purchase_history \in ExampleHistories
    /\ user_id = "u1"
    /\ products = <<>>
    /\ top_k = 0
    /\ max_per_brand = DefaultMaxPerBrand
    /\ min_category_diversity = DefaultMinCategoryDiversity
    /\ decay = DefaultDecay
    /\ target_user_products = <<>>
    /\ edge_to_count = <<>>
    /\ candidates = <<>>
    /\ sorted_items = <<>>
    /\ chosen = <<>>
    /\ brand_counter = <<>>
    /\ categories_present = {}
    /\ first_pass_len = 0
    /\ results = <<>>
    /\ product_id = "p1"
    /\ explanation = <<>>
    /\ threads = <<>>
    /\ frames = <<>>

SpecExample == InitExample /\ [][NextGraph]_vars

\* a call of score_candidates
InitScore ==
    /\ entry = "score_candidates"
    /\ pc = "score"
    /\ outcome = "none"
    /\ purchase_history = <<>>
    /\ user_id = "u1"
    /\ products = <<>>
    /\ top_k = 0
    /\ max_per_brand = DefaultMaxPerBrand
    /\ min_category_diversity = DefaultMinCategoryDiversity
    /\ decay \in DecayValues
    /\ target_user_products \in SeqsUpTo(ProductIds, MaxOwned)
    /\ edge_to_count \in Graphs
    /\ candidates = <<>>
    /\ sorted_items = <<>>
    /\ chosen = <<>>
    /\ brand_counter = <<>>
    /\ categories_present = {}
    /\ first_pass_len = 0
    /\ results = <<>>
    /\ product_id = "p1"
    /\ explanation = <<>>
    /\ threads = <<>>
    /\ frames = <<>>

NextScore == ScoreCandidates

SpecScore == InitScore /\ [][NextScore]_vars

\* a call of fairness_rerank
InitRerank ==
    /\ entry = "fairness_rerank"
    /\ pc = "rerank"
    /\ outcome = "none"
    /\ purchase_history = <<>>
    /\ user_id = "u1"
    /\ candidates \in ScoreMaps
    /\ products \in CatalogsOver(DictKeys(candidates))
    /\ top_k \in TopKs
    /\ max_per_brand \in BrandCaps
    /\ min_category_diversity \in MinDiversities
    /\ decay = DefaultDecay
    /\ target_user_products = <<>>
    /\ edge_to_count = <<>>
    /\ sorted_items = <<>>
    /\ chosen = <<>>
    /\ brand_counter = <<>>
    /\ categories_present = {}
    /\ first_pass_len = 0
    /\ results = <<>>
    /\ product_id = "p1"
    /\ explanation = <<>>
    /\ threads = <<>>
    /\ frames = <<>>

NextRerank == RerankFirstPass \/ RerankBackfill

\* the empty catalog, one that holds p1 alone, and the whole demo catalog
ExplainCatalogs == {[p \in D |-> DemoProduct(p)] : D \in {{}, {"p1"}, ProductIds}}

\* a call of explain_recommendation
InitExplain ==
    /\ entry = "explain_recommendation"
    /\ pc = "explain_call"
    /\ outcome = "none"
    /\ purchase_history = <<>>
    /\ user_id = "u1"
    /\ products \in ExplainCatalogs
    /\ top_k = 0
    /\ max_per_brand = DefaultMaxPerBrand
    /\ min_category_diversity = DefaultMinCategoryDiversity
    /\ decay = DefaultDecay
    /\ target_user_products \in SeqsUpTo(ProductIds, MaxOwned)
    /\ edge_to_count \in Graphs
    /\ candidates = <<>>
    /\ sorted_items = <<>>
    /\ chosen = <<>>
    /\ brand_counter = <<>>
    /\ categories_present = {}
    /\ first_pass_len = 0
    /\ results = <<>>
    /\ product_id \in ProductIds
    /\ explanation = <<>>
    /\ threads = <<>>
    /\ frames = <<>>

NextExplain == ExplainRecommendation

SpecExplain == InitExplain /\ [][NextExplain]_vars

\* the owned products of a user who owns more products than an explanation
\* lists, in the order of the keys of the graphs below
ManyOwnedOrder == <<"p1", "p2", "p4", "p5">>

\* the edges (owned, p3) of those of the owned products that have one
ManyOwnedGraphs ==
    {Pick([i \in 1..Len(ManyOwnedOrder) |->
              [key |-> <<ManyOwnedOrder[i], "p3">>, val |-> c[i]]],
          {i \in 1..Len(ManyOwnedOrder) : c[i] > 0}, Len(ManyOwnedOrder)) :
        c \in [1..Len(ManyOwnedOrder) -> {0} \cup CountValues]}

\* a call of explain_recommendation for p3 and a user who owns up to one
\* product more than an explanation lists
InitExplainMany ==
    /\ entry = "explain_recommendation"
    /\ pc = "explain_call"
    /\ outcome = "none"
    /\ purchase_history = <<>>
    /\ user_id = "u1"
    /\ products \in ExplainCatalogs
    /\ top_k = 0
    /\ max_per_brand = DefaultMaxPerBrand
    /\ min_category_diversity = DefaultMinCategoryDiversity
    /\ decay = DefaultDecay
    /\ target_user_products \in SeqsUpTo(Range(ManyOwnedOrder), MaxExplained + 1)
    /\ edge_to_count \in ManyOwnedGraphs
    /\ candidates = <<>>
    /\ sorted_items = <<>>
    /\ chosen = <<>>
    /\ brand_counter = <<>>
    /\ categories_present = {}
    /\ first_pass_len = 0
    /\ results = <<>>
    /\ product_id = "p3"
    /\ explanation = <<>>
    /\ threads = <<>>
    /\ frames = <<>>

SpecExplainMany == InitExplainMany /\ [][NextExplain]_vars

SpecRerank == InitRerank /\ [][NextRerank]_vars

\* the whole demo catalog of the modelled products
ConcCatalogs == {[p \in ProductIds |-> DemoProduct(p)]}

\* requests for known and unknown users, run over one history and catalog
InitConc ==
    /\ entry = "concurrent"
    /\ pc = "threads"
    /\ outcome = "none"
    /\ purchase_history \in HistoriesUpTo(MaxOwned)
    /\ user_id = "u1"
    /\ products \in ConcCatalogs
    /\ top_k = 0
    /\ max_per_brand = DefaultMaxPerBrand
    /\ min_category_diversity = DefaultMinCategoryDiversity
    /\ decay = DefaultDecay
    /\ target_user_products = <<>>
    /\ edge_to_count = <<>>
    /\ candidates = <<>>
    /\ sorted_items = <<>>
    /\ chosen = <<>>
    /\ brand_counter = <<>>
    /\ categories_present = {}
    /\ first_pass_len = 0
    /\ results = <<>>
    /\ product_id = "p1"
    /\ explanation = <<>>
    /\ threads \in [Requests -> [pc      : {"recommend"},
                                 user_id : Range(UserOrder) \cup {"u3"},
                                 top_k   : {MaxTopK},
                                 ret     : {<<>>}]]
    /\ frames = [r \in Requests |->
                    [user_products |-> <<>>, edge_to_count |-> <<>>,
                     raw_scores |-> <<>>, reranked |-> <<>>]]

NextConc ==
    \E r \in Requests :
        \/ ConcGet(r)
        \/ ConcBuild(r)
        \/ ConcScore(r)
        \/ ConcRerank(r)
        \/ ConcReturn(r)

SpecConc == InitConc /\ [][NextConc]_vars

\* a call of recommend_for_user, which passes top_k only
Init ==
    /\ entry = "recommend_for_user"
    /\ pc = "recommend"
    /\ outcome = "none"
    /\ purchase_history \in HistoriesUpTo(MaxOwned)
    /\ user_id \in Range(UserOrder) \cup {"u3"}
    /\ products \in DemoCatalogs
    /\ top_k \in TopKs
    /\ max_per_brand = DefaultMaxPerBrand
    /\ min_category_diversity = DefaultMinCategoryDiversity
    /\ decay = DefaultDecay
    /\ target_user_products = <<>>
    /\ edge_to_count = <<>>
    /\ candidates = <<>>
    /\ sorted_items = <<>>
    /\ chosen = <<>>
    /\ brand_counter = <<>>
    /\ categories_present = {}
    /\ first_pass_len = 0
    /\ results = <<>>
    /\ product_id = "p1"
    /\ explanation = <<>>
    /\ threads = <<>>
    /\ frames = <<>>

Next ==
    \/ RecommendStart
    \/ BuildGraph
    \/ ScoreCandidates
    \/ RerankFirstPass
    \/ RerankBackfill
    \/ RecommendReturn

Spec == Init /\ [][Next]_vars

\* the products of a catalog in which one brand has more products than
\* max_per_brand allows
WideIds == {"p1", "p2", "p3", "p4"}

\* p4 as in demo(); p1, p2 and p3 as in demo() but all of the brand AquaCo
OneBrandProduct(p) ==
    CASE p = "p1" -> [product_id |-> "p1", title |-> "Eco Water Bottle",
                      brand |-> "AquaCo", category |-> "Outdoors"]
      [] p = "p2" -> [product_id |-> "p2", title |-> "Insulated Mug",
                      brand |-> "AquaCo", category |-> "Kitchen"]
      [] p = "p3" -> [product_id |-> "p3", title |-> "Trail Backpack",
                      brand |-> "AquaCo", category |-> "Outdoors"]
      [] p = "p4" -> [product_id |-> "p4", title |-> "Yoga Mat",
                      brand |-> "ZenFit", category |-> "Fitness"]

\* that catalog, the same without p2, and the catalog of demo()
WideCatalogs ==
    {[p \in D |-> OneBrandProduct(p)] : D \in {WideIds, WideIds \ {"p2"}}}
        \cup {[p \in WideIds |-> IF p = "p4" THEN OneBrandProduct(p) ELSE DemoProduct(p)]}

\* u1 has bought p4 and p1, some of them or one of them repeatedly; u2 has
\* bought p4, p1, p2 and p3 or some of them
WideHistories ==
    {<<[key |-> "u1", val |-> a], [key |-> "u2", val |-> b]>> :
        a \in SeqsUpTo({"p4", "p1"}, MaxOwned),
        b \in SubLists(<<"p4", "p1", "p2", "p3">>)}

\* a call of recommend_for_user over such a catalog
InitWide ==
    /\ entry = "recommend_for_user"
    /\ pc = "recommend"
    /\ outcome = "none"
    /\ purchase_history \in WideHistories
    /\ user_id \in Range(UserOrder) \cup {"u3"}
    /\ products \in WideCatalogs
    /\ top_k \in TopKs
    /\ max_per_brand = DefaultMaxPerBrand
    /\ min_category_diversity = DefaultMinCategoryDiversity
    /\ decay = DefaultDecay
    /\ target_user_products = <<>>
    /\ edge_to_count = <<>>
    /\ candidates = <<>>
    /\ sorted_items = <<>>
    /\ chosen = <<>>
    /\ brand_counter = <<>>
    /\ categories_present = {}
    /\ first_pass_len = 0
    /\ results = <<>>
    /\ product_id = "p1"
    /\ explanation = <<>>
    /\ threads = <<>>
    /\ frames = <<>>

SpecWide == InitWide /\ [][Next]_vars

----------------------------------------------------------------------------
(* Properties of fairness_rerank, under SpecRerank *)

\* the candidates of the ScoreMap that the catalog holds
NumCatalogPresent ==
    Cardinality({i \in 1..Len(candidates) : candidates[i].key \in DOMAIN products})

\* how often brand b occurs among the first n chosen items
BrandCount(b, n) ==
    Cardinality({i \in 1..n : products[chosen[i].key].brand = b})

\* C1: for top_k >= 1 the list fairness_rerank returns has at most top_k
\* entries.
C1_AtMostTopK ==
    (entry = "fairness_rerank" /\ pc = "done" /\ top_k >= 1)
        => Len(chosen) <= top_k

\* C2: for top_k >= 1 the returned list has at least
\* min(top_k, number of catalog-present candidates) entries, so it is shorter
\* than top_k only if fewer than top_k candidates are in the catalog.
C2_FilledUpToTopK ==
    (entry = "fairness_rerank" /\ pc = "done" /\ top_k >= 1)
        => Len(chosen) >= Min(top_k, NumCatalogPresent)

\* the backfill pass has filled the list up to top_k past the brand cap
C2_Witness ==
    /\ entry = "fairness_rerank" /\ pc = "done" /\ top_k >= 1
    /\ first_pass_len < top_k
    /\ Len(chosen) = top_k
    /\ \E b \in Brands : BrandCount(b, Len(chosen)) > max_per_brand

\* C3: in the prefix of the result that the first pass selected, no brand
\* occurs more than max_per_brand times.
C3_BrandCapInFirstPass ==
    (entry = "fairness_rerank" /\ pc \in {"line90", "done"})
        => \A b \in Brands :
              BrandCount(b, first_pass_len) > 0
                 => BrandCount(b, first_pass_len) <= max_per_brand

\* the first pass has passed over a catalog-present candidate whose brand was
\* at its cap of at least one, and the backfill pass has then appended it
C3_Witness ==
    /\ entry = "fairness_rerank" /\ pc = "done"
    /\ max_per_brand >= 1
    /\ first_pass_len < Len(chosen)
    /\ \E b \in Brands :
          /\ BrandCount(b, first_pass_len) = max_per_brand
          /\ BrandCount(b, Len(chosen)) > max_per_brand

\* C9: a call of fairness_rerank with top_k <= 0 is rejected as a caller
\* error and returns no list.
C9_NonPositiveTopKRejected ==
    (entry = "fairness_rerank" /\ pc = "done" /\ top_k <= 0)
        => outcome = "raised"

----------------------------------------------------------------------------
(* Properties of score_candidates, under SpecScore *)

\* C4: the ScoreMap holds no product of the owned sequence.
C4_NoOwnedCandidate ==
    (entry = "score_candidates" /\ pc = "done")
        => DictKeys(candidates) \cap Range(target_user_products) = {}

\* the graph links an owned product to another owned product and to a
\* product that is not owned, and the latter is scored
C4_Witness ==
    /\ entry = "score_candidates" /\ pc = "done"
    /\ candidates # <<>>
    /\ \E i \in 1..Len(edge_to_count) :
          /\ edge_to_count[i].key[1] \in Range(target_user_products)
          /\ edge_to_count[i].key[2] \in Range(target_user_products)
          /\ edge_to_count[i].key[1] # edge_to_count[i].key[2]

\* C10: a call of score_candidates with a decay outside (0, 1] is rejected as
\* a caller error and produces no ScoreMap.
C10_DecayOutOfRangeRejected ==
    (entry = "score_candidates" /\ pc = "done" /\ ~(0 < decay /\ decay <= DecayDen))
        => outcome = "raised"

----------------------------------------------------------------------------
(* Properties of build_copurchase_graph, under SpecGraph *)

\* the users whose purchase list holds both a and b
UsersWithBoth(a, b) ==
    {i \in 1..Len(purchase_history) :
        {a, b} \subseteq Range(purchase_history[i].val)}

\* some user's purchase list repeats a product and holds another one too
RepeatingUser ==
    \E i \in 1..Len(purchase_history) :
        LET l == purchase_history[i].val
        IN  /\ Cardinality(Range(l)) < Len(l)
            /\ Cardinality(Range(l)) >= 2

\* C5: the built graph is symmetric: with (a, b) it has the key (b, a), and
\* both have the same count.
C5_Symmetric ==
    (entry = "build_copurchase_graph" /\ pc = "done")
        => \A k \in DictKeys(edge_to_count) :
              /\ <<k[2], k[1]>> \in DictKeys(edge_to_count)
              /\ DictGet(edge_to_count, <<k[2], k[1]>>, 0) = DictGet(edge_to_count, k, 0)

\* a pair bought together by two users
C5_Witness ==
    /\ entry = "build_copurchase_graph" /\ pc = "done"
    /\ \E k \in DictKeys(edge_to_count) : DictGet(edge_to_count, k, 0) = 2

\* C6: the built graph has no key (a, a), also when a user's list repeats a
\* product.
C6_NoSelfPair ==
    (entry = "build_copurchase_graph" /\ pc = "done")
        => \A k \in DictKeys(edge_to_count) : k[1] # k[2]

C6_Witness ==
    /\ entry = "build_copurchase_graph" /\ pc = "done"
    /\ RepeatingUser
    /\ edge_to_count # <<>>

\* C7: for distinct products a and b, count(a, b) is the number of users
\* whose list holds both, and the key is absent when no user's does.
C7_CountsUsers ==
    (entry = "build_copurchase_graph" /\ pc = "done")
        => /\ Cardinality(DictKeys(edge_to_count)) = Len(edge_to_count)
           /\ \A a, b \in ProductIds :
                 a # b =>
                    /\ DictGet(edge_to_count, <<a, b>>, 0) = Cardinality(UsersWithBoth(a, b))
                    /\ DictHas(edge_to_count, <<a, b>>) <=> UsersWithBoth(a, b) # {}

\* two users hold a pair, one of them buying one of its products twice, and
\* another pair is held by nobody
C7_Witness ==
    /\ entry = "build_copurchase_graph" /\ pc = "done"
    /\ \E a, b \in ProductIds :
          /\ a # b
          /\ Cardinality(UsersWithBoth(a, b)) = 2
          /\ \E i \in UsersWithBoth(a, b) :
                Cardinality({n \in 1..Len(purchase_history[i].val) :
                                purchase_history[i].val[n] = a}) >= 2
    /\ \E a, b \in ProductIds : a # b /\ UsersWithBoth(a, b) = {}

----------------------------------------------------------------------------
(* Properties of recommend_for_user, under Spec *)

\* C8: for a user id that the purchase history lacks, or whose list is
\* empty, recommend_for_user returns the empty list and raises no error.
C8_UnknownUserGetsNothing ==
    (entry = "recommend_for_user" /\ pc = "done"
        /\ DictGet(purchase_history, user_id, <<>>) = <<>>)
        => results = <<>> /\ outcome = "returned"

\* the user is unknown while other users have co-purchases and top_k >= 1
C8_Witness ==
    /\ entry = "recommend_for_user" /\ pc = "done"
    /\ ~DictHas(purchase_history, user_id)
    /\ edge_to_count # <<>>
    /\ top_k >= 1
    /\ \E k \in DictKeys(edge_to_count) : k[2] \in DOMAIN products

----------------------------------------------------------------------------
(* Further properties of fairness_rerank, under SpecRerank *)

\* C11: every entry of the returned list is an entry (product id, score) of
\* the ScoreMap whose product id is in the catalog; candidates that the
\* catalog lacks are dropped by both passes without an error, so the list is
\* no longer than the number of catalog-present candidates.
C11_EntriesFromScoreMapAndCatalog ==
    (entry = "fairness_rerank" /\ pc = "done")
        => /\ outcome = "returned"
           /\ \A i \in 1..Len(chosen) :
                 /\ chosen[i] \in Range(candidates)
                 /\ chosen[i].key \in DOMAIN products
           /\ Len(chosen) <= NumCatalogPresent

\* the backfill pass has run over a candidate that the catalog lacks and has
\* appended another one
C11_Witness ==
    /\ entry = "fairness_rerank" /\ pc = "done"
    /\ first_pass_len < top_k
    /\ first_pass_len < Len(chosen)
    /\ \E i \in 1..Len(candidates) : candidates[i].key \notin DOMAIN products

\* the same entries in another insertion order
Reorderings(c) ==
    {[i \in 1..Len(c) |-> c[f[i]]] : f \in Permutations(1..Len(c))}

\* C13: candidates of equal score are ordered by a key of their own, so a
\* ScoreMap with the same entries in any other insertion order yields the
\* same ranked list.
C13_InsertionOrderIrrelevant ==
    (entry = "fairness_rerank" /\ pc = "done" /\ top_k >= 1)
        => \A c \in Reorderings(candidates) :
              fairness_rerank(c, products, top_k, max_per_brand,
                              min_category_diversity) = chosen

\* the categories of the products P that the catalog holds
CategoriesOf(P) == {products[p].category : p \in P \cap DOMAIN products}

\* C14: for top_k >= 1, when the catalog-present candidates span at least
\* min_category_diversity categories, so do the items of the returned list.
C14_DiversityEnforced ==
    (entry = "fairness_rerank" /\ pc = "done" /\ top_k >= 1)
        => (Cardinality(CategoriesOf(DictKeys(candidates))) >= min_category_diversity
              => Cardinality(CategoriesOf(DictKeys(chosen))) >= min_category_diversity)

----------------------------------------------------------------------------
(* Properties of explain_recommendation, under SpecExplain *)

\* the owned products that the graph links to product p with a positive count
PositiveOwned(p) ==
    {o \in Range(target_user_products) :
        \E i \in 1..Len(edge_to_count) :
            edge_to_count[i].key = <<o, p>> /\ edge_to_count[i].val > 0}

\* C15: explain_recommendation returns the fallback explanation exactly when
\* no owned product has a positive co-purchase count with the recommended
\* product; a pair that the graph lacks counts 0 and raises no error.
C15_FallbackIffNoPositiveCount ==
    (entry = "explain_recommendation" /\ pc = "done")
        => /\ outcome = "returned"
           /\ explanation.fallback <=> PositiveOwned(product_id) = {}

\* the fallback for a user who owns products, none of them linked to the
\* recommended product, in a graph that has edges
C15_Witness ==
    /\ entry = "explain_recommendation" /\ pc = "done"
    /\ explanation.fallback
    /\ target_user_products # <<>>
    /\ edge_to_count # <<>>
    /\ \E o \in Range(target_user_products) :
          ~DictHas(edge_to_count, <<o, product_id>>)

----------------------------------------------------------------------------
(* Further properties of recommend_for_user, under Spec *)

\* sum of count(t[i], c) * decay^(i-1) over the positions i <= n of the owned
\* sequence t whose product is in S, in units of DecayDen^(-MaxLen)
RECURSIVE ScoreSum(_, _, _, _, _, _)
ScoreSum(c, t, g, d, n, S) ==
    IF n = 0 THEN 0
    ELSE ScoreSum(c, t, g, d, n - 1, S)
         + (IF t[n] \in S
            THEN DictGet(g, <<t[n], c>>, 0) * Pow(d, n - 1) * Pow(DecayDen, MaxLen - (n - 1))
            ELSE 0)

\* the owned products that the catalog lacks
AbsentOwned == Range(target_user_products) \ DOMAIN products

\* C16 as claimed: an owned product that the catalog lacks adds to no
\* candidate's score and no explanation names it.
C16_AbsentOwnedExcluded ==
    (entry = "recommend_for_user" /\ pc = "done")
        => \A i \in 1..Len(results) :
              /\ results[i].score =
                    ScoreSum(results[i].pid, target_user_products, edge_to_count,
                             decay, Len(target_user_products), DOMAIN products)
              /\ \A n \in 1..Len(results[i].explanation.top_parts) :
                    results[i].explanation.top_parts[n].title \notin AbsentOwned

\* C16 as amended: an owned product that the catalog lacks counts in the
\* scores like any owned product, and an explanation names it by its product
\* id, with its count, when it is among the MaxExplained first contributors
\* (which it is when the owned sequence is no longer than MaxExplained).
C16_AbsentOwnedCounted ==
    (entry = "recommend_for_user" /\ pc = "done")
        => \A i \in 1..Len(results) :
              /\ results[i].score =
                    ScoreSum(results[i].pid, target_user_products, edge_to_count,
                             decay, Len(target_user_products),
                             Range(target_user_products))
              /\ \A o \in AbsentOwned :
                    (/\ DictGet(edge_to_count, <<o, results[i].pid>>, 0) > 0
                     /\ Len(target_user_products) <= MaxExplained)
                    => \E n \in 1..Len(results[i].explanation.top_parts) :
                          results[i].explanation.top_parts[n] =
                             [title |-> o,
                              cnt   |-> DictGet(edge_to_count, <<o, results[i].pid>>, 0)]

\* a recommendation that rests on an owned product missing from the catalog
C16_Witness ==
    /\ entry = "recommend_for_user" /\ pc = "done"
    /\ \E i \in 1..Len(results) : \E o \in AbsentOwned :
          /\ DictGet(edge_to_count, <<o, results[i].pid>>, 0) > 0
          /\ results[i].score > 0
          /\ ~results[i].explanation.fallback

\* C17: recommend_for_user leaves the purchase history (users, lists and
\* their order) and the catalog as they were: no step of the call changes
\* either.
C17_InputsUnchanged ==
    [][entry = "recommend_for_user"
          => purchase_history' = purchase_history /\ products' = products]_vars

\* a finished call for a user the history lacks, after which the history
\* still lacks that user
C17_Witness ==
    /\ entry = "recommend_for_user" /\ pc = "done"
    /\ ~DictHas(purchase_history, user_id)
    /\ purchase_history # <<>>

----------------------------------------------------------------------------
(* Concurrent requests, under SpecConc *)

\* C18: however the steps of concurrent requests interleave, each request
\* returns the list that recommend_for_user returns for its arguments when
\* it runs alone.
C18_ConcurrentAsAlone ==
    \A r \in Requests :
        threads[r].pc = "done"
            => threads[r].ret =
                  recommend_for_user(threads[r].user_id, purchase_history,
                                     products, threads[r].top_k)

\* request 1 has returned recommendations while request 2, for another user
\* who owns other products, is between its statements
C18_Witness ==
    /\ entry = "concurrent"
    /\ threads[1].pc = "done" /\ threads[1].ret # <<>>
    /\ threads[2].pc = "rerank"
    /\ threads[1].user_id # threads[2].user_id
    /\ frames[2].user_products # <<>>
    /\ frames[2].user_products # frames[1].user_products
    /\ frames[2].raw_scores # frames[1].raw_scores

----------------------------------------------------------------------------
(* The example of build_copurchase_graph, under SpecExample *)

\* C19 as claimed: the graph of the example history has the edge (p1, p3)
\* with count 1 and the edge (p3, p6) with count 2.
C19_ExampleAsClaimed ==
    (pc = "done" /\ purchase_history = ExampleHistory)
        => /\ DictGet(edge_to_count, <<"p1", "p3">>, 0) = 1
           /\ DictGet(edge_to_count, <<"p3", "p6">>, 0) = 2

\* C19 as amended: the graph of the example history has the edge (p1, p3)
\* with count 1 and the edge (p3, p6) with count 1 (u3 alone holds both p3
\* and p6).
C19_ExampleCounts ==
    (pc = "done" /\ purchase_history = ExampleHistory)
        => /\ DictGet(edge_to_count, <<"p1", "p3">>, 0) = 1
           /\ DictGet(edge_to_count, <<"p3", "p6">>, 0) = 1

\* the graph of the example history has been built
C19_Witness ==
    /\ pc = "done" /\ purchase_history = ExampleHistory
    /\ edge_to_count # <<>>

----------------------------------------------------------------------------
(* The scores of score_candidates, under SpecScore *)

\* sum of count(t[i], c) over the positions i <= n of the owned sequence t
RECURSIVE CountSum(_, _, _, _)
CountSum(c, t, g, n) ==
    IF n = 0 THEN 0
    ELSE CountSum(c, t, g, n - 1) + DictGet(g, <<t[n], c>>, 0)

\* C20: for a decay in (0, 1], the score of each candidate c of the ScoreMap
\* is the sum over the positions i of count(o_i, c) * decay^i, a missing edge
\* counting 0; with decay = 1 it is the plain sum of the counts, and with
\* decay < 1 the weight of position i+1 is strictly less than that of
\* position i.
C20_ScoreIsDecayedSum ==
    (entry = "score_candidates" /\ pc = "done" /\ 0 < decay /\ decay <= DecayDen)
        => /\ \A n \in 1..Len(candidates) :
                 LET c == candidates[n].key
                     l == Len(target_user_products)
                 IN  /\ candidates[n].val =
                           ScoreSum(c, target_user_products, edge_to_count, decay, l,
                                    Range(target_user_products))
                     /\ decay = DecayDen
                           => candidates[n].val =
                                 CountSum(c, target_user_products, edge_to_count, l)
                                    * Pow(DecayDen, MaxLen)
           /\ decay < DecayDen
                 => \A i \in 1..(Len(target_user_products) - 1) :
                       Weight(decay, i) < Weight(decay, i - 1)

\* with decay 0.85, a candidate is scored from two different owned products
C20_Witness ==
    /\ entry = "score_candidates" /\ pc = "done"
    /\ decay = DefaultDecay
    /\ Len(target_user_products) = 2
    /\ target_user_products[1] # target_user_products[2]
    /\ \E c \in DictKeys(candidates) :
          /\ DictGet(edge_to_count, <<target_user_products[1], c>>, 0) > 0
          /\ DictGet(edge_to_count, <<target_user_products[2], c>>, 0) > 0

----------------------------------------------------------------------------
(* The entries of the ScoreMap, under SpecScore *)

\* the products that the graph links from an owned product
LinkedFromOwned ==
    {edge_to_count[i].key[2] : i \in {n \in 1..Len(edge_to_count) :
                                        edge_to_count[n].key[1] \in Range(target_user_products)}}

----------------------------------------------------------------------------
(* Users without pairs, under SpecGraph *)

\* the purchase history without its i-th user
WithoutUser(h, i) == SubSeq(h, 1, i - 1) \o SubSeq(h, i + 1, Len(h))

\* C22: a user whose list has 0 or 1 distinct products, a list that repeats
\* one product included, adds no edge: the graph is the graph of the history
\* without that user; the empty history yields the empty graph, and no call
\* raises an error.
C22_NoPairNoEdge ==
    (entry = "build_copurchase_graph" /\ pc = "done")
        => /\ outcome = "returned"
           /\ purchase_history = <<>> => edge_to_count = <<>>
           /\ \A i \in 1..Len(purchase_history) :
                 Cardinality(Range(purchase_history[i].val)) <= 1
                    => edge_to_count =
                          build_copurchase_graph(WithoutUser(purchase_history, i))

\* the first user's list repeats its one product, and the second user's
\* list gives the graph its edges
C22_Witness ==
    /\ entry = "build_copurchase_graph" /\ pc = "done"
    /\ Len(purchase_history) = 2
    /\ Len(purchase_history[1].val) >= 2
    /\ Cardinality(Range(purchase_history[1].val)) = 1
    /\ edge_to_count # <<>>

----------------------------------------------------------------------------
(* The order of the list of fairness_rerank, under SpecRerank *)

\* C23 as claimed: of any two entries of the returned list, the one with the
\* strictly higher score comes first.
C23_HigherScoreFirst ==
    (entry = "fairness_rerank" /\ pc = "done")
        => \A i, j \in 1..Len(chosen) :
              chosen[i].val > chosen[j].val => i < j

\* C23 as amended: a lower-scoring entry stands above a higher-scoring one
\* only when the first pass selected the lower one and passed over the higher
\* one, whose brand was at its cap, and the backfill pass then appended the
\* higher one.
C23_LowerAboveOnlyByBackfill ==
    (entry = "fairness_rerank" /\ pc = "done")
        => \A i, j \in 1..Len(chosen) :
              (i < j /\ chosen[i].val < chosen[j].val)
                 => /\ i <= first_pass_len
                    /\ j > first_pass_len
                    /\ BrandCount(products[chosen[j].key].brand, first_pass_len)
                          >= max_per_brand

\* with a brand cap of at least one, the backfill pass has appended a
\* candidate below a first-pass item that scores less
C23_Witness ==
    /\ entry = "fairness_rerank" /\ pc = "done"
    /\ max_per_brand >= 1
    /\ \E i, j \in 1..Len(chosen) :
          /\ i < j
          /\ chosen[i].val < chosen[j].val
          /\ j > first_pass_len

\* C25: the returned list holds no product id twice, whether or not the
\* backfill pass runs.
C25_NoProductTwice ==
    (entry = "fairness_rerank" /\ pc = "done")
        => \A i, j \in 1..Len(chosen) :
              i # j => chosen[i].key # chosen[j].key

\* the backfill pass has walked over the items the first pass selected and
\* has appended another one
C25_Witness ==
    /\ entry = "fairness_rerank" /\ pc = "done"
    /\ first_pass_len >= 1
    /\ first_pass_len < Len(chosen)

\* the entries of l at the positions a..b are in non-increasing score order
NonIncreasing(l, a, b) ==
    \A i, j \in a..b : i < j => l[i].val >= l[j].val

\* C30: the items that the first pass selected are in non-increasing score
\* order; the items that the backfill pass appended come after all of them,
\* the first-pass list staying as it was, and are in non-increasing score
\* order among themselves; when the backfill pass appends nothing the whole
\* list is in non-increasing score order.
C30_TwoSortedRuns ==
    (entry = "fairness_rerank" /\ pc = "done")
        => /\ first_pass_len <= Len(chosen)
           /\ SubSeq(chosen, 1, first_pass_len) =
                 FirstPass(sorted_items, Len(sorted_items), products, top_k,
                           max_per_brand, min_category_diversity).chosen
           /\ NonIncreasing(chosen, 1, first_pass_len)
           /\ NonIncreasing(chosen, first_pass_len + 1, Len(chosen))
           /\ first_pass_len = Len(chosen) => NonIncreasing(chosen, 1, Len(chosen))

\* both passes have contributed two items of different scores each
C30_Witness ==
    /\ entry = "fairness_rerank" /\ pc = "done"
    /\ first_pass_len >= 1
    /\ Len(chosen) >= first_pass_len + 2
    /\ chosen[first_pass_len + 1].val > chosen[Len(chosen)].val

----------------------------------------------------------------------------
(* The owned products an explanation names, under SpecExplainMany *)

\* the co-purchase count of owned product o with the recommended product
CountWith(o) == DictGet(edge_to_count, <<o, product_id>>, 0)

\* the owned products with a positive count that the explanation leaves out
LeftOut ==
    {o \in Range(target_user_products) :
        /\ CountWith(o) > 0
        /\ \A n \in 1..Len(explanation.top_parts) :
              explanation.top_parts[n].title # TitleOrId(o, products)}

\* C24: a non-fallback explanation names at most 3 owned products, each with
\* its positive co-purchase count with the recommended product, in
\* non-increasing order of count, and no owned product left out has a
\* strictly greater count than a listed one.
C24_TopThreeByCount ==
    (entry = "explain_recommendation" /\ pc = "done" /\ ~explanation.fallback)
        => LET parts == explanation.top_parts
           IN  /\ Len(parts) >= 1
               /\ Len(parts) <= 3
               /\ \A n \in 1..Len(parts) :
                     /\ parts[n].cnt > 0
                     /\ \E o \in Range(target_user_products) :
                           /\ parts[n].title = TitleOrId(o, products)
                           /\ parts[n].cnt = CountWith(o)
               /\ \A n, m \in 1..Len(parts) : n < m => parts[n].cnt >= parts[m].cnt
               /\ \A o \in LeftOut : \A n \in 1..Len(parts) : parts[n].cnt >= CountWith(o)

\* the first owned product has a positive count and is left out, behind
\* three owned products that come later and have a greater count
C24_Witness ==
    /\ entry = "explain_recommendation" /\ pc = "done"
    /\ Len(explanation.top_parts) = 3
    /\ target_user_products[1] \in LeftOut
    /\ explanation.top_parts[3].cnt > CountWith(target_user_products[1])
    /\ Cardinality({explanation.top_parts[n].title : n \in 1..3}) = 3

----------------------------------------------------------------------------
(* The explanations of recommend_for_user, under SpecWide *)

\* C26: every item that recommend_for_user returns, the items that the
\* backfill pass appended included, has a positive co-purchase count with a
\* product the target user owns, so no returned explanation is the fallback.
C26_NoFallbackInPipeline ==
    (entry = "recommend_for_user" /\ pc = "done")
        => \A i \in 1..Len(results) :
              /\ ~results[i].explanation.fallback
              /\ \E o \in Range(target_user_products) :
                    DictGet(edge_to_count, <<o, results[i].pid>>, 0) > 0

\* the first pass has stopped short at the brand cap and the backfill pass
\* has appended a third product of the brand, which is returned last
C26_Witness ==
    /\ entry = "recommend_for_user" /\ pc = "done"
    /\ first_pass_len = DefaultMaxPerBrand
    /\ Len(results) = first_pass_len + 1
    /\ \A i \in 1..Len(results) :
          products[results[i].pid].brand = products[results[1].pid].brand

----------------------------------------------------------------------------
(* Repeated purchases of the target user, under Spec *)

\* the purchase history after user u has bought product p once more
WithRepeat(h, u, p) ==
    [i \in 1..Len(h) |->
        IF h[i].key = u THEN [key |-> u, val |-> Append(h[i].val, p)] ELSE h[i]]

\* the product ids and scores of a returned list, in its order
Ranking(r) == [i \in 1..Len(r) |-> <<r[i].pid, r[i].score>>]

\* C27: appending to the target user's purchase list a repeat of a product
\* that the list already holds changes nothing in what recommend_for_user
\* returns: the same product ids, with the same scores, in the same order.
C27_RepeatChangesNothing ==
    (entry = "recommend_for_user" /\ pc = "done" /\ top_k >= 1)
        => \A p \in Range(OwnedProducts(purchase_history, user_id)) :
              Ranking(recommend_for_user(user_id,
                                         WithRepeat(purchase_history, user_id, p),
                                         products, top_k))
                 = Ranking(results)

\* C28: an explanation that recommend_for_user returns names each owned
\* product at most once, also when the target user's list repeats a product.
C28_OwnedNamedOnce ==
    (entry = "recommend_for_user" /\ pc = "done" /\ top_k >= 1)
        => \A i \in 1..Len(results) :
              LET parts == results[i].explanation.top_parts
              IN  \A n, m \in 1..Len(parts) :
                     n # m => parts[n].title # parts[m].title

----------------------------------------------------------------------------
(* Reordered purchase histories, under SpecGraphShort *)

\* the first n users of h, each with the purchases in any order
RECURSIVE ListsReordered(_, _)
ListsReordered(h, n) ==
    IF n = 0 THEN {<<>>}
    ELSE {Append(r, [key |-> h[n].key, val |-> l]) :
             r \in ListsReordered(h, n - 1), l \in Reorderings(h[n].val)}

\* h with its users in any order and every user's purchases in any order
ReorderedHistories(h) ==
    UNION {Reorderings(x) : x \in ListsReordered(h, Len(h))}

\* two dicts without repeated keys hold the same keys with the same values
SameMapping(d, e) ==
    /\ Cardinality(DictKeys(d)) = Len(d)
    /\ Cardinality(DictKeys(e)) = Len(e)
    /\ DictKeys(d) = DictKeys(e)
    /\ \A k \in DictKeys(d) : DictGet(d, k, 0) = DictGet(e, k, 0)

\* C29: the built graph, as a mapping from pairs to counts, is the same for
\* every reordering of the users of the purchase history and of the products
\* within each user's list.
C29_OrderOfHistoryIrrelevant ==
    (entry = "build_copurchase_graph" /\ pc = "done")
        => \A h \in ReorderedHistories(purchase_history) :
              SameMapping(build_copurchase_graph(h), edge_to_count)

\* two users with different lists, one of them with a repeated product, and
\* a reordering that inserts the keys of the graph in another order
C29_Witness ==
    /\ entry = "build_copurchase_graph" /\ pc = "done"
    /\ Len(purchase_history) = 2
    /\ Range(purchase_history[1].val) # Range(purchase_history[2].val)
    /\ RepeatingUser
    /\ \A i \in 1..2 : Cardinality(Range(purchase_history[i].val)) >= 2
    /\ \E h \in ReorderedHistories(purchase_history) :
          build_copurchase_graph(h) # edge_to_count

====
